---- MODULE Spec2Model ----
(***************************************************************************)
(* Model of the error-serialization library: the ErrorSerializer           *)
(* orchestrator (register / subscribe / process), the ErrorPlugin base     *)
(* class and the three standard plugins (Zod, Axios, Standard).            *)
(*                                                                         *)
(* JavaScript values are tagged records, the tag t being the value's kind: *)
(*   undefined, null, string, number, symbol, array, object, and the three *)
(*   error classes Error, ZodError, AxiosError.                            *)
(* Objects that are inputs of process carry a reference ref, so that two   *)
(* objects of equal content are still two values (=== is reference         *)
(* equality).                                                              *)
(*                                                                         *)
(* Spec is the orchestrator: register, subscribe and process, the latter   *)
(* in steps, one per subscriber callback, since a callback may itself      *)
(* subscribe or register.  SpecZod is ZodErrorPlugin.serialize applied to  *)
(* the ZodErrors and options of bounded sets, SpecAxios is                 *)
(* AxiosErrorPlugin.serialize applied to the AxiosErrors of a bounded set, *)
(* and SpecTwice is the orchestrator when the caller repeats a process     *)
(* call with the input of the call before.                                 *)
(***************************************************************************)
EXTENDS Integers, Sequences, FiniteSets, TLC

VARIABLES
  plugins,     \* ErrorSerializer.plugins: the sorted plugin list
  callbacks,   \* ErrorSerializer.callbacks: the subscriber list
  registered,  \* history: the plugins in the order of the register calls
  pc,          \* position of the caller: idle, notify, returned, threw
  input,       \* argument of the process call in progress
  output,      \* local `output` of the process call in progress
  outRef,      \* identity of the object `output` refers to
  cbIdx,       \* position of the for..of loop over this.callbacks
  invoked,     \* history: the callback invocations of the call in progress
  subsAtStart, \* history: callbacks.length when the call began
  regsAtStart, \* history: number of register calls before the call began
  nCalls,      \* number of process calls begun so far
  zPlugin,     \* ZodErrorPlugin instance under test (SpecZod)
  zError,      \* ZodError handed to zPlugin.serialize (SpecZod)
  zOut,        \* what zPlugin.serialize returned (SpecZod)
  zpc,         \* SpecZod position: ready, done
  aError,      \* AxiosError handed to AxiosErrorPlugin.serialize (SpecAxios)
  aOut,        \* what AxiosErrorPlugin.serialize returned (SpecAxios)
  apc,         \* SpecAxios position: ready, done
  prev         \* history: the previous process call (SpecTwice)

vars == <<plugins, callbacks, registered, pc, input, output, outRef, cbIdx,
          invoked, subsAtStart, regsAtStart, nCalls, zPlugin, zError, zOut, zpc,
          aError, aOut, apc, prev>>

orchVars == <<plugins, callbacks, registered, pc, input, output, outRef,
              cbIdx, invoked, subsAtStart, regsAtStart, nCalls>>

zodVars == <<zPlugin, zError, zOut, zpc>>

axiosVars == <<aError, aOut, apc>>

----------------------------------------------------------------------------
(* Bounds of the model *)

MaxPlugins == 2   \* register calls made by the caller
MaxSubs == 2      \* subscribe calls made by the caller
MaxCalls == 2     \* process calls
MaxIssues == 2    \* issues of a ZodError with short paths
MaxPathLen == 3   \* path length of the issue of a one-issue ZodError

----------------------------------------------------------------------------
(* JavaScript values *)

Undefined == [t |-> "undefined"]

Null == [t |-> "null"]

Str(s) == [t |-> "string", s |-> s]

\* an integer number
Num(n) == [t |-> "number", n |-> n]

\* a non-integer number, carried with its decimal text
Frac(text) == [t |-> "number", f |-> text]

Sym(d) == [t |-> "symbol", d |-> d]

\* an array: a holds the elements, p the other own properties
Arr(a) == [t |-> "array", a |-> a, p |-> <<>>]

\* a plain object with own properties o (a function from keys to values);
\* proto tells whether it inherits from Object.prototype
Obj(o) == [t |-> "object", o |-> o, proto |-> TRUE]

\* {}
EmptyObj == Obj(<<>>)

None == [t |-> "none"]

Digits == <<"0", "1", "2", "3", "4", "5", "6", "7", "8", "9">>

RECURSIVE DecStr(_)
\* Number.prototype.toString of an integer
DecStr(n) ==
  IF n < 0 THEN "-" \o DecStr(-n)
  ELSE IF n < 10 THEN Digits[n + 1]
  ELSE DecStr(n \div 10) \o Digits[(n % 10) + 1]

NumStr(v) == IF "n" \in DOMAIN v THEN DecStr(v.n) ELSE v.f

\* ToBoolean
Truthy(v) ==
  CASE v.t = "undefined" -> FALSE
    [] v.t = "null" -> FALSE
    [] v.t = "string" -> v.s # ""
    [] v.t = "number" -> ("n" \notin DOMAIN v) \/ v.n # 0
    [] OTHER -> TRUE

\* typeof v === "object"
TypeofObject(v) ==
  v.t \in {"null", "array", "object", "Error", "ZodError", "AxiosError"}

IsArray(v) == v.t = "array"

\* variant of OrElse: b when b is truthy
OrElseLast(a, b) == IF Truthy(b) THEN b ELSE a

\* a || b
OrElse(a, b) == IF Truthy(a) THEN a ELSE b

\* Error.prototype.toString
ErrorToString(name, message) ==
  IF message = "" THEN name ELSE name \o ": " \o message

\* String(v): [ok |-> TRUE, s |-> text], or [ok |-> FALSE] when the
\* conversion throws a TypeError (an object without a usable toString,
\* such as one created by Object.create(null))
ToStr(v) ==
  CASE v.t = "undefined" -> [ok |-> TRUE, s |-> "undefined"]
    [] v.t = "null" -> [ok |-> TRUE, s |-> "null"]
    [] v.t = "string" -> [ok |-> TRUE, s |-> v.s]
    [] v.t = "number" -> [ok |-> TRUE, s |-> NumStr(v)]
    [] v.t = "symbol" -> [ok |-> TRUE, s |-> "Symbol(" \o v.d \o ")"]
    [] v.t = "object" ->
         IF v.proto THEN [ok |-> TRUE, s |-> "[object Object]"]
         ELSE [ok |-> FALSE]
    [] v.t \in {"Error", "ZodError", "AxiosError"} ->
         [ok |-> TRUE, s |-> ErrorToString(v.t, v.message)]

----------------------------------------------------------------------------
(* Property access on objects and arrays.  Keys are strings; the keys of   *)
(* the model are field names and indices, none of them a member of         *)
(* Object.prototype or Array.prototype, so only own properties are read.   *)

\* the array index a key denotes, or -1
IndexOf(k) ==
  IF \E i \in 0..9 : DecStr(i) = k
  THEN CHOOSE i \in 0..9 : DecStr(i) = k
  ELSE -1

\* c[k]
Get(c, k) ==
  IF c.t = "array"
  THEN LET i == IndexOf(k) IN
       IF i >= 0
       THEN IF i < Len(c.a) THEN c.a[i + 1] ELSE Undefined
       ELSE IF k \in DOMAIN c.p THEN c.p[k] ELSE Undefined
  ELSE IF k \in DOMAIN c.o THEN c.o[k] ELSE Undefined

\* own properties f with f[k] = v
Put(f, k, v) == [x \in (DOMAIN f) \cup {k} |-> IF x = k THEN v ELSE f[x]]

\* c[k] = v  (an index past the end of an array leaves holes, read as
\* undefined)
Set(c, k, v) ==
  IF c.t = "array"
  THEN LET i == IndexOf(k) IN
       IF i >= 0
       THEN [c EXCEPT !.a = [j \in 1..(IF i < Len(c.a) THEN Len(c.a) ELSE i + 1) |->
                               IF j = i + 1 THEN v
                               ELSE IF j <= Len(c.a) THEN c.a[j] ELSE Undefined]]
       ELSE [c EXCEPT !.p = Put(c.p, k, v)]
  ELSE [c EXCEPT !.o = Put(c.o, k, v)]

\* arr.push(v)
Push(arr, v) == [arr EXCEPT !.a = Append(arr.a, v)]

\* the property key a path segment is used as, and its text in Array.join
ToKey(seg) == IF seg.t = "string" THEN seg.s ELSE NumStr(seg)

----------------------------------------------------------------------------
(* ErrorPriority and the ErrorPlugin base class *)

ErrorPriority ==
  [FallbackError |-> -1, StandardError |-> 0, AxiosError |-> 1, ZodError |-> 2]

\* variant of createResponse: the error is stored as a copy
createResponseCopy(plugin, error, params) ==
  params @@ [metadata |-> [plugin |-> plugin.name, priority |-> plugin.priority],
             error |-> IF "ref" \in DOMAIN error
                       THEN [error EXCEPT !.ref = 0] ELSE error]

\* ErrorPlugin.createResponse: metadata and error, then the spread params
createResponse(plugin, error, params) ==
  params @@ [metadata |-> [plugin |-> plugin.name, priority |-> plugin.priority],
             error |-> error]

----------------------------------------------------------------------------
(* ZodErrorPlugin *)

DefaultOptions ==
  [structure |-> "flat", messageFormat |-> "array", keySeparator |-> "_"]

\* new ZodErrorPlugin(options): the defaults, overridden by the options given
ZodErrorPlugin(options) ==
  [name |-> "ZodErrorPlugin", priority |-> ErrorPriority.ZodError,
   options |-> options @@ DefaultOptions]

\* new ZodError(issues); its message is the library's rendering of the issues
ZodError(ref, issues) ==
  [t |-> "ZodError", ref |-> ref, issues |-> issues, message |-> "[issues]"]

\* the caller's mapIssue functions of the model:
\*   nothing    () => undefined
\*   byMessage  an empty message is replaced and coded, "X" is only coded
\*   recode     gives the baseline code for "X" and an empty code otherwise
mapIssue(fn, issue) ==
  CASE fn = "nothing" -> Undefined
    [] fn = "recode" ->
         IF issue.message = "X"
         THEN Obj([code |-> Str("102")])
         ELSE Obj([code |-> Str("")])
    [] fn = "byMessage" ->
         IF issue.message = ""
         THEN Obj([message |-> Str("Required"), code |-> Str("E_REQUIRED")])
         ELSE IF issue.message = "X"
         THEN Obj([code |-> Str("E_X")])
         ELSE Obj([message |-> Str("")])

\* variant of FilterPath: only the strings are kept
FilterStringsOnly(path) == SelectSeq(path, LAMBDA k : k.t = "string")

\* issue.path.filter(k => typeof k !== "symbol")
FilterPath(path) == SelectSeq(path, LAMBDA k : k.t # "symbol")

RECURSIVE Join(_, _)
\* path.join(separator)
Join(path, sep) ==
  IF path = <<>> THEN ""
  ELSE IF Len(path) = 1 THEN ToKey(path[1])
  ELSE ToKey(path[1]) \o sep \o Join(Tail(path), sep)

\* codes.add(code) on an insertion-ordered Set
SetAdd(codes, code) ==
  IF \E i \in 1..Len(codes) : codes[i] = code THEN codes ELSE Append(codes, code)

\* ZodErrorPlugin.setFlatValue
setFlatValue(obj, key, message, options) ==
  IF options.messageFormat = "array"
  THEN LET o1 == IF ~Truthy(Get(obj, key)) THEN Set(obj, key, Arr(<<>>)) ELSE obj
       IN Set(o1, key, Push(Get(o1, key), Str(message)))
  ELSE IF ~Truthy(Get(obj, key)) THEN Set(obj, key, Str(message)) ELSE obj

RECURSIVE setNestedNoDescent(_, _, _, _)
\* variant of setNestedValue: `current` never moves down from obj
setNestedNoDescent(obj, path, message, options) ==
  IF path = <<>> THEN obj
  ELSE
    LET key == ToKey(path[1])
        cur == Get(obj, key)
    IN IF Len(path) = 1
       THEN IF options.messageFormat = "array"
            THEN IF IsArray(cur)
                 THEN Set(obj, key, Push(cur, Str(message)))
                 ELSE Set(obj, key, Arr(<<Str(message)>>))
            ELSE Set(obj, key, Str(message))
       ELSE setNestedNoDescent(
              IF ~Truthy(cur) \/ ~TypeofObject(cur)
              THEN Set(obj, key, EmptyObj) ELSE obj,
              Tail(path), message, options)

RECURSIVE setNestedValue(_, _, _, _)
\* ZodErrorPlugin.setNestedValue: obj after the walk along path; the loop
\* variable `current` is the container the recursion descends into
setNestedValue(obj, path, message, options) ==
  IF path = <<>> THEN obj
  ELSE
    LET key == ToKey(path[1])
        cur == Get(obj, key)
    IN IF Len(path) = 1
       THEN IF options.messageFormat = "array"
            THEN LET o1 == IF ~Truthy(cur) THEN Set(obj, key, Arr(<<>>)) ELSE obj
                     c1 == Get(o1, key)
                 IN IF IsArray(c1)
                    THEN Set(o1, key, Push(c1, Str(message)))
                    ELSE Set(o1, key, Arr(<<Str(message)>>))
            ELSE Set(obj, key, Str(message))
       ELSE LET child == IF ~Truthy(cur) \/ ~TypeofObject(cur)
                         THEN EmptyObj ELSE cur
            IN Set(obj, key, setNestedValue(child, Tail(path), message, options))

\* variant of formatIssue: in nested mode an issue whose path is empty is
\* stored as in flat mode
formatIssueRootKey(st, issue, options) ==
  LET path == FilterPath(issue.path)
      mapped == IF "mapIssue" \in DOMAIN options
                THEN mapIssue(options.mapIssue, issue) ELSE Undefined
      message == IF Truthy(mapped) /\ Truthy(Get(mapped, "message"))
                 THEN Get(mapped, "message").s ELSE issue.message
      codes == IF Truthy(mapped) /\ Truthy(Get(mapped, "code"))
               THEN SetAdd(st.codes, Get(mapped, "code")) ELSE st.codes
  IN [result |->
        IF options.structure = "nested" /\ path # <<>>
        THEN setNestedValue(st.result, path, message, options)
        ELSE setFlatValue(st.result, Join(path, options.keySeparator),
                          message, options),
      codes |-> codes]

\* one iteration of the loop of formatIssues, on st = [result, codes]
formatIssue(st, issue, options) ==
  LET path == FilterPath(issue.path)
      mapped == IF "mapIssue" \in DOMAIN options
                THEN mapIssue(options.mapIssue, issue) ELSE Undefined
      message == IF Truthy(mapped) /\ Truthy(Get(mapped, "message"))
                 THEN Get(mapped, "message").s ELSE issue.message
      codes == IF Truthy(mapped) /\ Truthy(Get(mapped, "code"))
               THEN SetAdd(st.codes, Get(mapped, "code")) ELSE st.codes
  IN [result |->
        IF options.structure = "nested"
        THEN setNestedValue(st.result, path, message, options)
        ELSE setFlatValue(st.result, Join(path, options.keySeparator),
                          message, options),
      codes |-> codes]

RECURSIVE formatIssuesFrom(_, _, _)
formatIssuesFrom(st, issues, options) ==
  IF issues = <<>> THEN st
  ELSE formatIssuesFrom(formatIssue(st, Head(issues), options),
                        Tail(issues), options)

\* ZodErrorPlugin.formatIssues: the validation object and the codes set
formatIssues(issues, codes, options) ==
  formatIssuesFrom([result |-> EmptyObj, codes |-> codes], issues, options)

\* ZodErrorPlugin.serialize
ZodSerialize(plugin, error) ==
  LET st == formatIssues(error.issues, <<Str("102")>>, plugin.options)
  IN createResponse(plugin, error,
       [global |-> Str("Validation error"),
        code |-> Arr(st.codes),
        status |-> Num(422),
        validation |-> st.result])

----------------------------------------------------------------------------
(* StandardErrorPlugin *)

StandardErrorPlugin ==
  [name |-> "StandardErrorPlugin", priority |-> ErrorPriority.StandardError]

\* new Error(message)
Error(ref, message) == [t |-> "Error", ref |-> ref, message |-> message]

\* error instanceof Error: ZodError and AxiosError are subclasses of Error
InstanceofError(x) == x.t \in {"Error", "ZodError", "AxiosError"}

\* StandardErrorPlugin.serialize
StandardSerialize(plugin, error) ==
  createResponse(plugin, error,
    [global |-> Str(error.message),
     code |-> Arr(<<Str("INTERNAL_ERROR")>>)])

----------------------------------------------------------------------------
(* AxiosErrorPlugin *)

AxiosErrorPlugin ==
  [name |-> "AxiosErrorPlugin", priority |-> ErrorPriority.AxiosError]

\* new AxiosError(message), response being undefined or
\* [status |-> integer, data |-> the parsed body]
AxiosError(ref, message, response) ==
  [t |-> "AxiosError", ref |-> ref, message |-> message, response |-> response]

\* v?.k : undefined for undefined and null, and for a primitive without
\* that property
Opt(v, k) == IF v.t \in {"object", "array"} THEN Get(v, k) ELSE Undefined

\* Object.keys(v) with the values, as a function (no keys for a number,
\* null or undefined; a non-empty string, whose keys are its indices, is
\* never passed)
OwnProps(v) ==
  IF v.t = "array"
  THEN [k \in {DecStr(i - 1) : i \in 1..Len(v.a)} \cup DOMAIN v.p |-> Get(v, k)]
  ELSE IF v.t = "object" THEN v.o
  ELSE <<>>

\* value !== null && typeof value === "object" && !Array.isArray(value)
IsPlainObject(v) == v.t = "object"

RECURSIVE flattenNoUnwrap(_, _)
\* variant of flattenProps: a list of one element is stored as the list
flattenNoUnwrap(props, prefix) ==
  LET path(k) == IF prefix # "" THEN prefix \o "." \o k ELSE k
      sub(k) == IF IsPlainObject(props[k])
                THEN flattenNoUnwrap(OwnProps(props[k]), path(k))
                ELSE [q \in {path(k)} |-> props[k]]
      keys == UNION {DOMAIN sub(k) : k \in DOMAIN props}
  IN [q \in keys |->
        LET k == CHOOSE k \in DOMAIN props : q \in DOMAIN sub(k) IN sub(k)[q]]

RECURSIVE flattenProps(_, _)
\* AxiosErrorPlugin.flatten on the own properties props
flattenProps(props, prefix) ==
  LET path(k) == IF prefix # "" THEN prefix \o "." \o k ELSE k
      leaf(v) == IF IsArray(v) /\ Len(v.a) = 1 THEN v.a[1] ELSE v
      sub(k) == IF IsPlainObject(props[k])
                THEN flattenProps(OwnProps(props[k]), path(k))
                ELSE [q \in {path(k)} |-> leaf(props[k])]
      keys == UNION {DOMAIN sub(k) : k \in DOMAIN props}
  IN [q \in keys |->
        LET k == CHOOSE k \in DOMAIN props : q \in DOMAIN sub(k) IN sub(k)[q]]

\* this.flatten(obj)
flatten(obj) == Obj(flattenProps(OwnProps(obj), ""))

\* variant of StatusOf: 500 when there is no response
StatusOr500(error) ==
  IF error.response = Undefined THEN Num(500) ELSE Num(error.response.status)

\* error.response?.status || 0
StatusOf(error) ==
  IF error.response = Undefined THEN Num(0)
  ELSE OrElse(Num(error.response.status), Num(0))

\* variant of AxiosSerialize: the body's errorCode is not looked at
AxiosSerializeCodeOnly(plugin, error) ==
  LET responseData ==
        IF error.response = Undefined THEN Undefined ELSE error.response.data
      backendMessage ==
        OrElse(Opt(responseData, "message"),
               Opt(Opt(responseData, "error"), "message"))
      backendCode == Opt(responseData, "code")
      rawValidation ==
        OrElse(Opt(responseData, "validationErrors"), Opt(responseData, "errors"))
      validation ==
        IF Truthy(rawValidation) THEN flatten(rawValidation) ELSE Undefined
      finalMessage ==
        OrElse(OrElse(backendMessage, Str(error.message)), Str("Network Error"))
      finalCodes ==
        IF Truthy(backendCode)
        THEN IF IsArray(backendCode) THEN backendCode
             ELSE Arr(<<Str(ToStr(backendCode).s)>>)
        ELSE Arr(<<Str("HTTP_" \o NumStr(StatusOf(error)))>>)
  IN createResponse(plugin, error,
       [global |-> finalMessage,
        code |-> finalCodes,
        status |-> StatusOf(error),
        validation |-> validation])

\* AxiosErrorPlugin.serialize
AxiosSerialize(plugin, error) ==
  LET responseData ==
        IF error.response = Undefined THEN Undefined ELSE error.response.data
      backendMessage ==
        OrElse(Opt(responseData, "message"),
               Opt(Opt(responseData, "error"), "message"))
      backendCode ==
        OrElse(Opt(responseData, "code"), Opt(responseData, "errorCode"))
      rawValidation ==
        OrElse(Opt(responseData, "validationErrors"), Opt(responseData, "errors"))
      validation ==
        IF Truthy(rawValidation) THEN flatten(rawValidation) ELSE Undefined
      finalMessage ==
        OrElse(OrElse(backendMessage, Str(error.message)), Str("Network Error"))
      finalCodes ==
        IF Truthy(backendCode)
        THEN IF IsArray(backendCode) THEN backendCode
             ELSE Arr(<<Str(ToStr(backendCode).s)>>)
        ELSE Arr(<<Str("HTTP_" \o NumStr(StatusOf(error)))>>)
  IN createResponse(plugin, error,
       [global |-> finalMessage,
        code |-> finalCodes,
        status |-> StatusOf(error),
        validation |-> validation])

----------------------------------------------------------------------------
(* Plugin dispatch *)

\* plugin.match(error)
Match(plugin, error) ==
  CASE plugin.name = "ZodErrorPlugin" -> error.t = "ZodError"
    [] plugin.name = "AxiosErrorPlugin" -> error.t = "AxiosError"
    [] plugin.name = "StandardErrorPlugin" -> InstanceofError(error)

\* plugin.serialize(error)
Serialize(plugin, error) ==
  CASE plugin.name = "ZodErrorPlugin" -> ZodSerialize(plugin, error)
    [] plugin.name = "AxiosErrorPlugin" -> AxiosSerialize(plugin, error)
    [] plugin.name = "StandardErrorPlugin" -> StandardSerialize(plugin, error)

----------------------------------------------------------------------------
(* ErrorSerializer *)

RECURSIVE InsertUnstable(_, _)
\* variant of InsertStable: x goes in front of the elements that compare
\* equal to it
InsertUnstable(sorted, x) ==
  IF sorted = <<>> THEN <<x>>
  ELSE IF x.priority - Head(sorted).priority >= 0
       THEN <<x>> \o sorted
       ELSE <<Head(sorted)>> \o InsertUnstable(Tail(sorted), x)

RECURSIVE InsertStable(_, _)
\* one insertion of a stable sort under the comparator
\* (a, b) => b.priority - a.priority: x goes behind every element that does
\* not compare greater than it
InsertStable(sorted, x) ==
  IF sorted = <<>> THEN <<x>>
  ELSE IF x.priority - Head(sorted).priority > 0
       THEN <<x>> \o sorted
       ELSE <<Head(sorted)>> \o InsertStable(Tail(sorted), x)

RECURSIVE SortFrom(_, _)
SortFrom(sorted, rest) ==
  IF rest = <<>> THEN sorted
  ELSE SortFrom(InsertStable(sorted, Head(rest)), Tail(rest))

RECURSIVE SortAscending(_)
\* variant of SortByPriority: the comparator is a.priority - b.priority
SortAscending(list) ==
  IF list = <<>> THEN <<>>
  ELSE LET rest == SortAscending(Tail(list))
           x == Head(list)
           low == SelectSeq(rest, LAMBDA y : y.priority < x.priority)
           high == SelectSeq(rest, LAMBDA y : y.priority >= x.priority)
       IN low \o <<x>> \o high

\* Array.prototype.sort((a, b) => b.priority - a.priority), a stable sort
SortByPriority(list) == SortFrom(<<>>, list)

\* variant of register: push without the sort
registerNoSort(list, plugin) == Append(list, plugin)

\* ErrorSerializer.register: the plugin list after push and sort
register(list, plugin) == SortByPriority(Append(list, plugin))

\* ErrorSerializer.subscribe: the callback list after push
subscribe(list, callback) == Append(list, callback)

RECURSIVE FirstMatch(_, _)
\* the loop of process over this.plugins: the output of the first plugin
\* that matches, or null
FirstMatch(list, error) ==
  IF list = <<>> THEN None
  ELSE IF Match(Head(list), error) THEN Serialize(Head(list), error)
  ELSE FirstMatch(Tail(list), error)

\* the fallback object literal of process; String(error) is evaluated while
\* it is built
Fallback(error) ==
  [metadata |-> [plugin |-> "ErrorSerializer",
                 priority |-> ErrorPriority.FallbackError],
   error |-> error,
   global |-> Str(ToStr(error).s),
   code |-> Arr(<<Str("UNHANDLED_EXCEPTION")>>)]

\* variant of Produce: the plugins are asked on the first call only
ProduceOnce(list, error) ==
  LET matched == IF nCalls = 0 THEN FirstMatch(list, error) ELSE None IN
  IF matched # None THEN [threw |-> FALSE, out |-> matched]
  ELSE IF ToStr(error).ok THEN [threw |-> FALSE, out |-> Fallback(error)]
  ELSE [threw |-> TRUE]

\* process up to the callbacks: [threw |-> FALSE, out |-> output], or
\* [threw |-> TRUE] when building the fallback throws
Produce(list, error) ==
  LET matched == FirstMatch(list, error) IN
  IF matched # None THEN [threw |-> FALSE, out |-> matched]
  ELSE IF ToStr(error).ok THEN [threw |-> FALSE, out |-> Fallback(error)]
  ELSE [threw |-> TRUE]

----------------------------------------------------------------------------
(* The values the caller uses *)

\* an object that is no Error: {} (proto) or Object.create(null)
PlainInput(ref, proto) == [t |-> "object", ref |-> ref, o |-> <<>>, proto |-> proto]

Issue(path, message) == [code |-> "custom", path |-> path, message |-> message]

NestedValidation ==
  Obj([user |-> Obj([email |-> Arr(<<Str("Invalid format")>>),
                     roles |-> Arr(<<Str("Admin"), Str("Editor")>>)]),
       status |-> Arr(<<Num(400)>>)])

Inputs ==
  { Null, Undefined, Num(500), Str("Simple string error"),
    PlainInput(1, TRUE), PlainInput(2, FALSE),
    Error(3, "Generic"), Error(4, "Generic"),
    ZodError(5, <<>>),
    ZodError(6, <<Issue(<<Str("user"), Num(0), Str("n")>>, "Msg")>>),
    AxiosError(7, "Network Error", Undefined),
    AxiosError(8, "Bad Gateway", [status |-> 502, data |-> Str("<html>Error</html>")]),
    AxiosError(9, "Unprocessable Entity",
               [status |-> 422,
                data |-> Obj([message |-> Str("Validation error"),
                              errorCode |-> Arr(<<Str("102")>>),
                              validationErrors |-> NestedValidation])]),
    AxiosError(10, "Conflict",
               [status |-> 409, data |-> Obj([code |-> Arr(<<>>)])]),
    AxiosError(11, "Conflict",
               [status |-> 409,
                data |-> Obj([code |-> Arr(<<Str("E1"), Str("E1")>>)])]) }

PluginPool ==
  { StandardErrorPlugin, AxiosErrorPlugin,
    ZodErrorPlugin([structure |-> "flat"]),
    ZodErrorPlugin([structure |-> "nested", messageFormat |-> "string"]) }

\* subscriber callbacks: one that only observes, one that throws, one that
\* subscribes another observer, one that registers a plugin
CallbackPool == {"observe", "throw", "subscribe", "register"}

\* the plugin the "register" callback registers
LatePlugin == ZodErrorPlugin([structure |-> "nested", messageFormat |-> "string"])

----------------------------------------------------------------------------
(* Actions of the orchestrator *)

NoCall ==
  /\ input = None /\ output = None /\ outRef = 0 /\ cbIdx = 0
  /\ invoked = <<>> /\ subsAtStart = 0 /\ regsAtStart = 0

ZodIdle == zPlugin = None /\ zError = None /\ zOut = None /\ zpc = "off"

AxiosIdle == aError = None /\ aOut = None /\ apc = "off"

Init ==
  /\ plugins = <<>>
  /\ callbacks = <<>>
  /\ registered = <<>>
  /\ pc = "idle"
  /\ nCalls = 0
  /\ NoCall
  /\ ZodIdle
  /\ AxiosIdle
  /\ prev = None

\* serializer.register(plugin)
Register(plugin) ==
  /\ pc = "idle"
  /\ Len(registered) < MaxPlugins
  /\ plugins' = register(plugins, plugin)
  /\ registered' = Append(registered, plugin)
  /\ UNCHANGED <<callbacks, pc, input, output, outRef, cbIdx, invoked,
                 subsAtStart, regsAtStart, nCalls>>
  /\ UNCHANGED zodVars
  /\ UNCHANGED <<axiosVars, prev>>

\* serializer.subscribe(callback)
Subscribe(callback) ==
  /\ pc = "idle"
  /\ Len(callbacks) < MaxSubs
  /\ callbacks' = subscribe(callbacks, callback)
  /\ UNCHANGED <<plugins, registered, pc, input, output, outRef, cbIdx,
                 invoked, subsAtStart, regsAtStart, nCalls>>
  /\ UNCHANGED zodVars
  /\ UNCHANGED <<axiosVars, prev>>

\* serializer.process(error), up to the loop over the callbacks
ProcessBegin(error) ==
  /\ pc = "idle"
  /\ nCalls < MaxCalls
  /\ nCalls' = nCalls + 1
  /\ input' = error
  /\ invoked' = <<>>
  /\ subsAtStart' = Len(callbacks)
  /\ regsAtStart' = Len(registered)
  /\ LET r == Produce(plugins, error) IN
     IF r.threw
     THEN pc' = "threw" /\ output' = None /\ outRef' = 0 /\ cbIdx' = 0
     ELSE pc' = "notify" /\ output' = r.out /\ outRef' = nCalls + 1 /\ cbIdx' = 1
  /\ UNCHANGED <<plugins, callbacks, registered>>
  /\ UNCHANGED zodVars
  /\ UNCHANGED <<axiosVars, prev>>

\* variant of Notify: what a callback throws is caught and the loop goes on
NotifyCatch ==
  /\ pc = "notify"
  /\ cbIdx <= Len(callbacks)
  /\ invoked' = Append(invoked, [cb |-> cbIdx, ref |-> outRef, arg |-> output])
  /\ LET callback == callbacks[cbIdx] IN
     /\ pc' = "notify"
     /\ cbIdx' = cbIdx + 1
     /\ callbacks' = IF callback = "subscribe"
                     THEN subscribe(callbacks, "observe") ELSE callbacks
     /\ plugins' = IF callback = "register"
                   THEN register(plugins, LatePlugin) ELSE plugins
     /\ registered' = IF callback = "register"
                      THEN Append(registered, LatePlugin) ELSE registered
  /\ UNCHANGED <<input, output, outRef, subsAtStart, regsAtStart, nCalls>>
  /\ UNCHANGED zodVars
  /\ UNCHANGED <<axiosVars, prev>>

\* variant of Notify: the callback is handed a copy of output
NotifyCopy ==
  /\ pc = "notify"
  /\ cbIdx <= Len(callbacks)
  /\ invoked' = Append(invoked, [cb |-> cbIdx, ref |-> 0, arg |-> output])
  /\ LET callback == callbacks[cbIdx] IN
     /\ pc' = IF callback = "throw" THEN "threw" ELSE "notify"
     /\ cbIdx' = IF callback = "throw" THEN cbIdx ELSE cbIdx + 1
     /\ callbacks' = IF callback = "subscribe"
                     THEN subscribe(callbacks, "observe") ELSE callbacks
     /\ plugins' = IF callback = "register"
                   THEN register(plugins, LatePlugin) ELSE plugins
     /\ registered' = IF callback = "register"
                      THEN Append(registered, LatePlugin) ELSE registered
  /\ UNCHANGED <<input, output, outRef, subsAtStart, regsAtStart, nCalls>>
  /\ UNCHANGED zodVars
  /\ UNCHANGED <<axiosVars, prev>>

\* one iteration of `for (const callback of this.callbacks) callback(output)`;
\* the loop reads this.callbacks at every iteration
Notify ==
  /\ pc = "notify"
  /\ cbIdx <= Len(callbacks)
  /\ invoked' = Append(invoked, [cb |-> cbIdx, ref |-> outRef, arg |-> output])
  /\ LET callback == callbacks[cbIdx] IN
     /\ pc' = IF callback = "throw" THEN "threw" ELSE "notify"
     /\ cbIdx' = IF callback = "throw" THEN cbIdx ELSE cbIdx + 1
     /\ callbacks' = IF callback = "subscribe"
                     THEN subscribe(callbacks, "observe") ELSE callbacks
     /\ plugins' = IF callback = "register"
                   THEN register(plugins, LatePlugin) ELSE plugins
     /\ registered' = IF callback = "register"
                      THEN Append(registered, LatePlugin) ELSE registered
  /\ UNCHANGED <<input, output, outRef, subsAtStart, regsAtStart, nCalls>>
  /\ UNCHANGED zodVars
  /\ UNCHANGED <<axiosVars, prev>>

\* variant of Return: the loop runs over the callbacks there were when the
\* call began
ReturnSnapshot ==
  /\ pc = "notify"
  /\ cbIdx > subsAtStart
  /\ pc' = "returned"
  /\ UNCHANGED <<plugins, callbacks, registered, input, output, outRef, cbIdx,
                 invoked, subsAtStart, regsAtStart, nCalls>>
  /\ UNCHANGED zodVars
  /\ UNCHANGED <<axiosVars, prev>>

\* `return output`
Return ==
  /\ pc = "notify"
  /\ cbIdx > Len(callbacks)
  /\ pc' = "returned"
  /\ UNCHANGED <<plugins, callbacks, registered, input, output, outRef, cbIdx,
                 invoked, subsAtStart, regsAtStart, nCalls>>
  /\ UNCHANGED zodVars
  /\ UNCHANGED <<axiosVars, prev>>

\* the caller goes on after the call returned or threw
Finish ==
  /\ pc \in {"returned", "threw"}
  /\ pc' = "idle"
  /\ input' = None /\ output' = None /\ outRef' = 0 /\ cbIdx' = 0
  /\ invoked' = <<>> /\ subsAtStart' = 0 /\ regsAtStart' = 0
  /\ UNCHANGED <<plugins, callbacks, registered, nCalls>>
  /\ UNCHANGED zodVars
  /\ UNCHANGED <<axiosVars, prev>>

Next ==
  \/ \E plugin \in PluginPool : Register(plugin)
  \/ \E callback \in CallbackPool : Subscribe(callback)
  \/ \E error \in Inputs : ProcessBegin(error)
  \/ Notify
  \/ Return
  \/ Finish

Spec == Init /\ [][Next]_vars

----------------------------------------------------------------------------
(* The orchestrator when the caller sets it up and then repeats a call:    *)
(* every process call after the first has the input of the call before     *)

\* the first process call
ProcessFirst == prev = None /\ \E error \in Inputs : ProcessBegin(error)

\* serializer.process(error) with the error of the call before
ProcessAgain == prev # None /\ ProcessBegin(prev.input)

\* the caller goes on after the call returned or threw, and keeps what it
\* passed in and got back
FinishRecord ==
  /\ pc \in {"returned", "threw"}
  /\ prev' = [input |-> input, output |-> output, outcome |-> pc,
              regs |-> regsAtStart, subs |-> subsAtStart,
              plugins |-> plugins, callbacks |-> callbacks]
  /\ pc' = "idle"
  /\ input' = None /\ output' = None /\ outRef' = 0 /\ cbIdx' = 0
  /\ invoked' = <<>> /\ subsAtStart' = 0 /\ regsAtStart' = 0
  /\ UNCHANGED <<plugins, callbacks, registered, nCalls>>
  /\ UNCHANGED zodVars
  /\ UNCHANGED axiosVars

\* the caller sets the orchestrator up before its first process call
RegisterFirst == nCalls = 0 /\ \E plugin \in PluginPool : Register(plugin)

SubscribeFirst == nCalls = 0 /\ \E callback \in CallbackPool : Subscribe(callback)

NextTwice ==
  \/ RegisterFirst
  \/ SubscribeFirst
  \/ ProcessFirst
  \/ ProcessAgain
  \/ Notify
  \/ Return
  \/ FinishRecord

SpecTwice == Init /\ [][NextTwice]_vars

----------------------------------------------------------------------------
(* ZodErrorPlugin.serialize on its own: the plugin is constructed with     *)
(* some options and handed one ZodError                                    *)

\* path segments: field names, an index, a symbol, a non-integer number
Segs == {Str("a"), Str("b"), Num(0), Sym("private"), Frac("1.5")}

ShortSegs == {Str("a"), Num(0), Sym("private")}

Messages == {"", "X"}

\* the paths over S of length at most n
Paths(S, n) == UNION {[1..k -> S] : k \in 0..n}

ShortPaths ==
  {<<>>} \cup {<<s>> : s \in ShortSegs} \cup {<<s, u>> : s \in ShortSegs, u \in ShortSegs}

\* the issue lists: one issue with a path of up to MaxPathLen segments, or
\* up to MaxIssues issues with short paths
IssueLists ==
  {<<Issue(path, m)>> : path \in Paths(Segs, MaxPathLen), m \in Messages}
  \cup UNION {[1..k -> {Issue(path, m) : path \in ShortPaths, m \in Messages}]
              : k \in 0..MaxIssues}

\* the options objects handed to the constructor
OptionSets ==
  LET given == [structure : {"flat", "nested"},
                messageFormat : {"array", "string"},
                keySeparator : {"_", "."}]
  IN {<<>>} \cup given
     \cup {[mapIssue |-> fn] @@ o :
             fn \in {"nothing", "byMessage", "recode"}, o \in given}

InitZod ==
  /\ plugins = <<>>
  /\ callbacks = <<>>
  /\ registered = <<>>
  /\ pc = "idle"
  /\ nCalls = 0
  /\ NoCall
  /\ zPlugin \in {ZodErrorPlugin(o) : o \in OptionSets}
  /\ zError \in {ZodError(1, issues) : issues \in IssueLists}
  /\ zOut = None
  /\ zpc = "ready"
  /\ AxiosIdle
  /\ prev = None

\* zPlugin.serialize(zError)
ZodSerializeCall ==
  /\ zpc = "ready"
  /\ zOut' = ZodSerialize(zPlugin, zError)
  /\ zpc' = "done"
  /\ UNCHANGED <<zPlugin, zError>>
  /\ UNCHANGED orchVars
  /\ UNCHANGED <<axiosVars, prev>>

NextZod == ZodSerializeCall

SpecZod == InitZod /\ [][NextZod]_vars

----------------------------------------------------------------------------
(* AxiosErrorPlugin.serialize on its own: the plugin is handed one         *)
(* AxiosError.  The keys of a body carry no dot, and a raw validation      *)
(* value is an object or an array, never a string.                         *)

MaxDepth == 2     \* levels of objects in a raw validation object

\* the values at the leaves of a raw validation object
Leaves ==
  { Str("Invalid format"), Num(400), Null, Arr(<<>>),
    Arr(<<Str("Invalid format")>>), Arr(<<Num(400)>>),
    Arr(<<Str("Admin"), Str("Editor")>>),
    Arr(<<Arr(<<Str("Invalid format")>>)>>) }

RECURSIVE Nest(_)
\* the leaves, and the objects of up to d levels over the keys user, status
Nest(d) ==
  IF d = 0 THEN Leaves
  ELSE LET sub == Nest(d - 1) IN
       Leaves \cup {EmptyObj}
       \cup {Obj([user |-> x]) : x \in sub}
       \cup {Obj([user |-> x, status |-> l]) : x \in sub, l \in Leaves}

\* what a body holds in validationErrors or errors
RawValidations ==
  {v \in Nest(MaxDepth) : v.t = "object"}
  \cup {NestedValidation, Arr(<<Str("Invalid format")>>)}

\* the ways a body has, or has not, a field k with a value of S
Field(k, S) == {<<>>} \cup {[x \in {k} |-> v] : v \in S}

\* response bodies: the message and code fields in every combination with
\* few validation values, every raw validation value alone, and bodies
\* that are no objects
Bodies ==
  { Obj(m @@ e @@ c @@ ec @@ v) :
      m \in Field("message", {Str(""), Str("Body message")}),
      e \in Field("error", {Str("oops"), Null,
                            Obj([message |-> Str("Inner message")])}),
      c \in Field("code", {Str("E1"), Num(42), Num(0), Str(""), Arr(<<>>),
                           Arr(<<Str("E1"), Str("E2")>>)}),
      ec \in Field("errorCode", {Str("E2"), Arr(<<Str("102")>>)}),
      v \in { <<>>, [validationErrors |-> NestedValidation],
              [errors |-> Obj([status |-> Arr(<<Num(400)>>)])],
              [validationErrors |-> Null, errors |-> NestedValidation],
              [validationErrors |-> EmptyObj, errors |-> NestedValidation] } }
  \cup {Obj([validationErrors |-> v]) : v \in RawValidations}
  \cup {Str("<html>Error</html>"), Str(""), Null, Undefined}

\* error.response: undefined when no response was received
Responses ==
  {Undefined} \cup {[status |-> st, data |-> d] : st \in {400, 502}, d \in Bodies}

\* the AxiosErrors handed to serialize, with or without a code of their own
AxiosErrors ==
  { AxiosError(1, m, r) @@ own :
      m \in {"", "Request failed"}, r \in Responses,
      own \in {<<>>, [code |-> Str("ERR_NETWORK")]} }

InitAxios ==
  /\ plugins = <<>>
  /\ callbacks = <<>>
  /\ registered = <<>>
  /\ pc = "idle"
  /\ nCalls = 0
  /\ NoCall
  /\ ZodIdle
  /\ prev = None
  /\ aError \in AxiosErrors
  /\ aOut = None
  /\ apc = "ready"

\* new AxiosErrorPlugin().serialize(aError)
AxiosSerializeCall ==
  /\ apc = "ready"
  /\ aOut' = AxiosSerialize(AxiosErrorPlugin, aError)
  /\ apc' = "done"
  /\ UNCHANGED aError
  /\ UNCHANGED orchVars
  /\ UNCHANGED zodVars
  /\ UNCHANGED prev

NextAxios == AxiosSerializeCall

SpecAxios == InitAxios /\ [][NextAxios]_vars

----------------------------------------------------------------------------
(* Properties of the orchestrator (checked under Spec) *)

\* the plugins that were registered when the call in progress began and
\* that match its input, as positions in `registered`
MatchingAtStart == {i \in 1..regsAtStart : Match(registered[i], input)}

\* C1: the response process returns carries the priority (and the name) of
\* a highest-priority plugin among those registered that match the input,
\* and priority -1 when none of them matches.
C1_PriorityOfBestMatch ==
  pc = "returned" =>
    IF MatchingAtStart = {}
    THEN output.metadata.priority = -1
    ELSE \E i \in MatchingAtStart :
           /\ \A j \in MatchingAtStart :
                registered[j].priority <= registered[i].priority
           /\ output.metadata.priority = registered[i].priority
           /\ output.metadata.plugin = registered[i].name

\* C1 witness: a call returned on an input matched by two plugins, the one
\* of lower priority registered first.
C1_Witness ==
  /\ pc = "returned"
  /\ \E i, j \in MatchingAtStart :
       i < j /\ registered[i].priority < registered[j].priority

RECURSIVE RegisterAll(_, _)
\* the plugin list after registering the plugins of order, one by one
RegisterAll(list, order) ==
  IF order = <<>> THEN list
  ELSE RegisterAll(register(list, Head(order)), Tail(order))

\* the orders in which the register calls made so far could have been made
Reorderings ==
  LET n == Len(registered) IN
  { [i \in 1..n |-> registered[f[i]]] :
      f \in {g \in [1..n -> 1..n] : \A a, b \in 1..n : g[a] = g[b] => a = b} }

\* no two different plugins registered so far have the same priority
DistinctPriorities ==
  \A i, j \in 1..Len(registered) :
    registered[i].priority = registered[j].priority =>
      registered[i] = registered[j]

\* C2 as stated: whatever the order of the register calls, process returns
\* the same result for every input (stated over the register calls of the
\* caller, at most MaxPlugins of them).
C2_OrderNeverMatters ==
  (pc = "idle" /\ Len(registered) <= MaxPlugins) =>
    \A order \in Reorderings : \A x \in Inputs :
      Produce(RegisterAll(<<>>, order), x) = Produce(plugins, x)

\* C2 as amended: the order of the register calls does not change the
\* result when no two different plugins share a priority; whatever the
\* priorities, it does not change the priority of the handling plugin.
C2_OrderMattersOnlyAmongEqualPriorities ==
  (pc = "idle" /\ Len(registered) <= MaxPlugins) =>
    \A order \in Reorderings : \A x \in Inputs :
      LET here == Produce(plugins, x)
          there == Produce(RegisterAll(<<>>, order), x)
      IN /\ DistinctPriorities => there = here
         /\ there.threw = here.threw
         /\ ~here.threw =>
              there.out.metadata.priority = here.out.metadata.priority

\* C2 witness: two plugins of different priorities, the lower one registered
\* first, both matching one input.
C2_Witness ==
  /\ pc = "idle"
  /\ Len(registered) = 2
  /\ registered[1].priority < registered[2].priority
  /\ \E x \in Inputs : Match(registered[1], x) /\ Match(registered[2], x)

\* the plugins of priority p in list, in their order in list
OfPriority(list, p) == SelectSeq(list, LAMBDA q : q.priority = p)

\* C3: the plugin list is sorted by descending priority, plugins of equal
\* priority are in the order of their register calls, and the list holds
\* one entry per register call.
C3_SortedStable ==
  /\ Len(plugins) = Len(registered)
  /\ \A i, j \in 1..Len(plugins) :
       i < j => plugins[i].priority >= plugins[j].priority
  /\ \A k \in 1..Len(registered) :
       OfPriority(plugins, registered[k].priority)
         = OfPriority(registered, registered[k].priority)

\* C3 witness: a plugin, then two different plugins of one higher priority.
C3_Witness ==
  /\ Len(registered) >= 3
  /\ registered[1].priority < registered[2].priority
  /\ registered[2].priority = registered[3].priority
  /\ registered[2] # registered[3]

\* C4: when process returns, every subscriber registered before the call
\* was invoked exactly once, in subscription order, with the object that
\* process returns, in its final content.
C4_SubscribersNotified ==
  pc = "returned" =>
    /\ Len(invoked) >= subsAtStart
    /\ \A i \in 1..subsAtStart :
         invoked[i] = [cb |-> i, ref |-> outRef, arg |-> output]
    /\ \A k \in 1..Len(invoked) : k > subsAtStart => invoked[k].cb > subsAtStart

\* C4 witness: a call returned that began with two subscribers.
C4_Witness == pc = "returned" /\ subsAtStart >= 2 /\ outRef > 0

\* C5: the response process returns holds in error the very value that was
\* passed in.
C5_ErrorIsInput == pc = "returned" => output.error = input

\* C5 witness: a call returned on an object handled by a plugin, and the
\* pool holds another object of equal content.
C5_Witness ==
  /\ pc = "returned"
  /\ output.metadata.priority >= 0
  /\ \E y \in Inputs : y # input /\ [y EXCEPT !.ref = 0] = [input EXCEPT !.ref = 0]

\* a subscriber threw during the call in progress
SubscriberThrew ==
  pc = "threw" /\ invoked # <<>> /\ callbacks[invoked[Len(invoked)].cb] = "throw"

\* the elements of the array value v are pairwise different
NoDuplicates(v) ==
  \A i, j \in 1..Len(v.a) : v.a[i] = v.a[j] => i = j

\* C6: on an input that no registered plugin matches, process does not fail
\* (a failure raised by a subscriber aside) and its output is the fallback
\* response: plugin "ErrorSerializer", priority -1, global the text of the
\* input ("null", "undefined", "500"), code ["UNHANDLED_EXCEPTION"], and
\* neither status nor validation.
C6_FallbackNeverFails ==
  (pc \in {"notify", "returned", "threw"} /\ MatchingAtStart = {}) =>
    /\ pc = "threw" => SubscriberThrew
    /\ output # None
    /\ DOMAIN output = {"metadata", "error", "global", "code"}
    /\ output.metadata = [plugin |-> "ErrorSerializer", priority |-> -1]
    /\ output.code = Arr(<<Str("UNHANDLED_EXCEPTION")>>)
    /\ output.global.t = "string"
    /\ input = Null => output.global.s = "null"
    /\ input = Undefined => output.global.s = "undefined"
    /\ input = Num(500) => output.global.s = "500"

\* C6 but for the failure: whenever process builds the fallback response,
\* that response is as C6 describes it.
C6_FallbackShape ==
  (pc \in {"notify", "returned", "threw"} /\ MatchingAtStart = {}
     /\ output # None) =>
    /\ DOMAIN output = {"metadata", "error", "global", "code"}
    /\ output.metadata = [plugin |-> "ErrorSerializer", priority |-> -1]
    /\ output.code = Arr(<<Str("UNHANDLED_EXCEPTION")>>)
    /\ output.global.t = "string"
    /\ input = Null => output.global.s = "null"
    /\ input = Undefined => output.global.s = "undefined"
    /\ input = Num(500) => output.global.s = "500"

\* C7: every response process produces has metadata and error, and its
\* code, when present, is a non-empty list without duplicates.
C7_ResponseShape ==
  output # None =>
    /\ {"metadata", "error"} \subseteq DOMAIN output
    /\ "code" \in DOMAIN output =>
         /\ IsArray(output.code)
         /\ Len(output.code.a) >= 1
         /\ NoDuplicates(output.code)

\* C7 for the responses that do not come from the Axios plugin.
C7_ShapeWithoutAxios ==
  (output # None /\ output.metadata.plugin # "AxiosErrorPlugin") =>
    /\ {"metadata", "error"} \subseteq DOMAIN output
    /\ "code" \in DOMAIN output =>
         /\ IsArray(output.code)
         /\ Len(output.code.a) >= 1
         /\ NoDuplicates(output.code)

----------------------------------------------------------------------------
(* Properties of the Zod plugin (checked under SpecZod) *)

zOptions == zPlugin.options

\* the message stored for an issue: the one mapIssue gives when it gives a
\* non-empty one, else the issue's own
MessageOf(issue) ==
  LET mapped == IF "mapIssue" \in DOMAIN zOptions
                THEN mapIssue(zOptions.mapIssue, issue) ELSE Undefined
  IN IF mapped # Undefined /\ "message" \in DOMAIN mapped.o
        /\ mapped.o.message.s # ""
     THEN mapped.o.message.s ELSE issue.message

\* the text of a path segment
SegText(seg) ==
  IF seg.t = "string" THEN seg.s
  ELSE IF "n" \in DOMAIN seg THEN DecStr(seg.n) ELSE seg.f

RECURSIVE JoinOnto(_, _, _)
\* acc followed by the segments of path, each behind a separator
JoinOnto(acc, path, sep) ==
  IF path = <<>> THEN acc
  ELSE JoinOnto(acc \o sep \o SegText(Head(path)), Tail(path), sep)

\* the segments of path joined with sep
Joined(path, sep) ==
  IF path = <<>> THEN "" ELSE JoinOnto(SegText(Head(path)), Tail(path), sep)

IsStringOrInteger(seg) ==
  seg.t = "string" \/ (seg.t = "number" /\ "n" \in DOMAIN seg)

\* the flat key of an issue
KeyOf(issue) == Join(FilterPath(issue.path), zOptions.keySeparator)

\* the messages of the issues of key k, in issue order
MessagesAt(k) ==
  LET at == SelectSeq(zError.issues, LAMBDA i : KeyOf(i) = k)
  IN [n \in 1..Len(at) |-> Str(MessageOf(at[n]))]

FlatDone == zpc = "done" /\ zOptions.structure = "flat"

\* C8: in flat mode the value at each key is, with messageFormat "array",
\* the list of the messages of the issues of that key in issue order, and
\* with messageFormat "string" the message of the first issue of that key.
C8_FlatValues ==
  FlatDone =>
    /\ DOMAIN zOut.validation.o = {KeyOf(zError.issues[i]) : i \in 1..Len(zError.issues)}
    /\ \A k \in DOMAIN zOut.validation.o :
         zOut.validation.o[k] =
           IF zOptions.messageFormat = "array"
           THEN Arr(MessagesAt(k)) ELSE MessagesAt(k)[1]

\* C8 for messageFormat "array" alone.
C8_FlatArrayValues ==
  (FlatDone /\ zOptions.messageFormat = "array") =>
    /\ DOMAIN zOut.validation.o = {KeyOf(zError.issues[i]) : i \in 1..Len(zError.issues)}
    /\ \A k \in DOMAIN zOut.validation.o :
         zOut.validation.o[k] = Arr(MessagesAt(k))

\* C8 for messageFormat "string" when no stored message is empty.
C8_FlatStringNonEmpty ==
  (FlatDone /\ zOptions.messageFormat = "string"
     /\ \A i \in 1..Len(zError.issues) : MessageOf(zError.issues[i]) # "") =>
    \A k \in DOMAIN zOut.validation.o :
      zOut.validation.o[k] = MessagesAt(k)[1]

RECURSIVE Tree(_, _)
\* the objects keyed by the segments of path, one in the other, leaf at
\* the last
Tree(path, leaf) ==
  IF Len(path) = 1 THEN Obj([k \in {SegText(path[1])} |-> leaf])
  ELSE Obj([k \in {SegText(path[1])} |-> Tree(Tail(path), leaf)])

NestedOneDone ==
  /\ zpc = "done"
  /\ zOptions.structure = "nested"
  /\ Len(zError.issues) = 1
  /\ FilterPath(zError.issues[1].path) # <<>>

\* C10: in nested mode a single issue of filtered path p1..pn, n >= 1,
\* gives the tree of objects keyed by p1..pn-1 with the message at pn (as a
\* one-element list under messageFormat "array"), integers being keys in
\* their decimal text: a, 0, b with "X" gives {a: {"0": {b: "X"}}}.
C10_NestedSingleIssue ==
  NestedOneDone =>
    LET issue == zError.issues[1]
        leaf == IF zOptions.messageFormat = "array"
                THEN Arr(<<Str(MessageOf(issue))>>) ELSE Str(MessageOf(issue))
    IN /\ zOut.validation = Tree(FilterPath(issue.path), leaf)
       /\ (issue.path = <<Str("a"), Num(0), Str("b")>> /\ issue.message = "X"
             /\ zOptions.messageFormat = "string"
             /\ "mapIssue" \notin DOMAIN zOptions)
            => zOut.validation =
                 Obj([k \in {"a"} |->
                   Obj([j \in {"0"} |-> Obj([m \in {"b"} |-> Str("X")])])])

\* C10 witness: nested mode, string format, one issue at a, 0, b.
C10_Witness ==
  /\ NestedOneDone
  /\ zOptions.messageFormat = "string"
  /\ zError.issues[1].path = <<Str("a"), Num(0), Str("b")>>
  /\ zError.issues[1].message = "X"

\* what mapIssue returns for the issue at position i
MappedAt(i) ==
  IF "mapIssue" \in DOMAIN zOptions
  THEN mapIssue(zOptions.mapIssue, zError.issues[i]) ELSE Undefined

\* the codes mapIssue returned, one per issue it returned a code for, in
\* issue order
ReturnedCodes ==
  LET idx == SelectSeq([i \in 1..Len(zError.issues) |-> i],
                       LAMBDA i : MappedAt(i) # Undefined
                                  /\ "code" \in DOMAIN MappedAt(i).o)
  IN [n \in 1..Len(idx) |-> MappedAt(idx[n]).o.code]

\* the elements of s, each once, in the order of their first occurrence
FirstOccurrences(s) ==
  LET idx == SelectSeq([i \in 1..Len(s) |-> i],
                       LAMBDA i : \A j \in 1..(i - 1) : s[j] # s[i])
  IN [n \in 1..Len(idx) |-> s[idx[n]]]

\* C11: the Zod plugin's response has status 422, global "Validation
\* error", and as code the list that begins with "102" and goes on with
\* every code mapIssue returned, each once, in the order of first return
\* (the list is a set: a returned "102" is the entry already there).
C11_CodesAllReturned ==
  zpc = "done" =>
    /\ zOut.status = Num(422)
    /\ zOut.global = Str("Validation error")
    /\ zOut.code = Arr(FirstOccurrences(<<Str("102")>> \o ReturnedCodes))

\* C11 for the codes that are not the empty string.
C11_CodesNonEmptyReturned ==
  zpc = "done" =>
    /\ zOut.status = Num(422)
    /\ zOut.global = Str("Validation error")
    /\ zOut.code =
         Arr(FirstOccurrences(
               <<Str("102")>> \o SelectSeq(ReturnedCodes, LAMBDA c : c.s # "")))

\* C11 witness: mapIssue returned the same code for two issues.
C11_Witness ==
  /\ zpc = "done"
  /\ ReturnedCodes = <<Str("E_X"), Str("E_X")>>
  /\ zOut.code = Arr(<<Str("102"), Str("E_X")>>)

----------------------------------------------------------------------------
(* Properties of the Axios plugin (checked under SpecAxios) *)

\* the response body, undefined when there is no response
aData == IF aError.response = Undefined THEN Undefined ELSE aError.response.data

\* the field k of the body, undefined when the body is no object or has
\* no such field
BodyField(k) ==
  IF aData.t = "object" /\ k \in DOMAIN aData.o THEN aData.o[k] ELSE Undefined

\* the raw validation value: validationErrors, else errors
aRaw ==
  IF Truthy(BodyField("validationErrors"))
  THEN BodyField("validationErrors") ELSE BodyField("errors")

\* what is stored for a leaf
StoredLeaf(v) == IF v.t = "array" /\ Len(v.a) = 1 THEN v.a[1] ELSE v

RECURSIVE LeafEntries(_, _)
\* the leaves below the properties o, each as <<dot-joined path, stored value>>
LeafEntries(o, prefix) ==
  UNION { LET path == IF prefix = "" THEN k ELSE prefix \o "." \o k IN
          IF o[k].t = "object" THEN LeafEntries(o[k].o, path)
          ELSE {<<path, StoredLeaf(o[k])>>} : k \in DOMAIN o }

aStatus == IF aError.response = Undefined THEN 0 ELSE aError.response.status

\* a code value as the list of codes
CodeAsList(v) == IF v.t = "array" THEN v ELSE Arr(<<Str(ToStr(v).s)>>)

\* the code "HTTP_{status}"
Synthesized == Arr(<<Str("HTTP_" \o DecStr(aStatus))>>)

\* C13 as stated: code comes from the body's code field if that field
\* exists, else from its errorCode field if that exists, a list as it is
\* and any other value as the one-element list of its string form;
\* ["HTTP_{status}"] only if neither field exists.
C13_CodeFromFirstExisting ==
  apc = "done" =>
    aOut.code =
      IF BodyField("code") # Undefined THEN CodeAsList(BodyField("code"))
      ELSE IF BodyField("errorCode") # Undefined
           THEN CodeAsList(BodyField("errorCode"))
           ELSE Synthesized

\* C13 as amended: code comes from the body's code field if that field is
\* non-empty (not absent, null, "" or 0), else from its errorCode field
\* if that is non-empty, a list (an empty one too) as it is and any other
\* value as the one-element list of its string form; ["HTTP_{status}"] if
\* neither field is non-empty, status being 0 without a response.
C13_CodeFromFirstNonEmpty ==
  apc = "done" =>
    aOut.code =
      IF Truthy(BodyField("code")) THEN CodeAsList(BodyField("code"))
      ELSE IF Truthy(BodyField("errorCode"))
           THEN CodeAsList(BodyField("errorCode"))
           ELSE Synthesized

\* C13 witness: the body has code 0 and errorCode "E2".
C13_Witness ==
  /\ apc = "done"
  /\ BodyField("code") = Num(0)
  /\ BodyField("errorCode") = Str("E2")
  /\ aOut.code = Arr(<<Str("E2")>>)

\* the message field of the body's error field
InnerMessage ==
  LET e == BodyField("error") IN
  IF e.t = "object" /\ "message" \in DOMAIN e.o THEN e.o.message ELSE Undefined

\* the first non-empty of the values of seq, the last one if none is
FirstNonEmpty(seq) ==
  IF \E i \in 1..Len(seq) : Truthy(seq[i])
  THEN seq[CHOOSE i \in 1..Len(seq) :
             Truthy(seq[i]) /\ \A j \in 1..(i - 1) : ~Truthy(seq[j])]
  ELSE seq[Len(seq)]

C15_NoResponse ==
  apc = "done" =>
    IF aError.response = Undefined
    THEN /\ "status" \in DOMAIN aOut
         /\ aOut.status = Num(0)
         /\ aOut.code = Arr(<<Str("HTTP_0")>>)
         /\ aOut.global = IF aError.message # ""
                          THEN Str(aError.message) ELSE Str("Network Error")
         /\ aOut.validation = Undefined
    ELSE aOut.status = Num(aError.response.status)

\* C15 witness: no response, a code of the error's own, an empty message.
C15_Witness ==
  /\ apc = "done"
  /\ aError.response = Undefined
  /\ "code" \in DOMAIN aError
  /\ aError.message = ""
  /\ aOut.global = Str("Network Error")

----------------------------------------------------------------------------
(* Further properties of the orchestrator (checked under Spec, C17 under   *)
(* SpecTwice)                                                              *)

\* the invocations of the callbacks 1..n, each once, in order, with the
\* output of the call in progress
InvokedUpTo(n) == [i \in 1..n |-> [cb |-> i, ref |-> outRef, arg |-> output]]

\* C16: when the next subscriber of the loop throws, the call ends by
\* throwing (it does not return), the subscribers before it have each been
\* invoked once with the output, and no subscriber after it is invoked:
\* once the call threw, nothing happens but the caller going on.
C16_ThrowAborts ==
  [][ /\ (pc = "notify" /\ cbIdx <= Len(callbacks)
            /\ callbacks[cbIdx] = "throw") =>
           /\ pc' = "threw"
           /\ invoked' = InvokedUpTo(cbIdx)
      /\ pc = "threw" => (pc' = "idle" /\ callbacks' = callbacks) ]_vars

\* C16 witness: the second subscriber threw, a third one is in the list.
C16_Witness ==
  /\ SubscriberThrew
  /\ cbIdx = 2
  /\ Len(invoked) = 2
  /\ Len(callbacks) > 2

\* every subscriber only observes
ObserversOnly == \A i \in 1..Len(callbacks) : callbacks[i] = "observe"

C20_LiveSubscriberList ==
  /\ [](pc = "returned" => invoked = InvokedUpTo(Len(callbacks)))
  /\ []((pc \in {"notify", "returned", "threw"} /\ output # None) =>
          output = Produce(RegisterAll(<<>>, SubSeq(registered, 1, regsAtStart)),
                           input).out)
  /\ [][ /\ Len(callbacks') >= Len(callbacks)
         /\ SubSeq(callbacks', 1, Len(callbacks)) = callbacks
         /\ (pc = "notify" /\ pc' # "idle") => output' = output ]_vars

\* C20 witness: a call returned during which one callback subscribed
\* another and one registered a plugin that matches the input and has a
\* higher priority than the plugin that handled it.
C20_Witness ==
  /\ pc = "returned"
  /\ Len(callbacks) > subsAtStart
  /\ Len(registered) > regsAtStart
  /\ Match(LatePlugin, input)
  /\ output.metadata.priority < LatePlugin.priority
  /\ output.metadata.priority >= 0

----------------------------------------------------------------------------
(* Properties of the Zod plugin in nested mode (checked under SpecZod) *)

\* the keys along the path of an issue
KeysOf(issue) ==
  LET path == FilterPath(issue.path) IN [i \in 1..Len(path) |-> SegText(path[i])]

\* p is a beginning of q and shorter than q
StrictPrefix(p, q) == Len(p) < Len(q) /\ SubSeq(q, 1, Len(p)) = p

RECURSIVE ValueAt(_, _)
\* the value at the end of the keys, going down from the container c
ValueAt(c, keys) ==
  IF keys = <<>> THEN c
  ELSE IF c.t \in {"object", "array"}
       THEN ValueAt(Get(c, Head(keys)), Tail(keys))
       ELSE Undefined

\* the messages of the issues whose path has the keys ks, in issue order
MessagesAtPath(ks) ==
  LET at == SelectSeq(zError.issues, LAMBDA i : KeysOf(i) = ks)
  IN [n \in 1..Len(at) |-> Str(MessageOf(at[n]))]

\* nested mode, every path has a key, and no path goes through the end of
\* another path
NestedNoConflict ==
  /\ zpc = "done"
  /\ zOptions.structure = "nested"
  /\ \A i \in 1..Len(zError.issues) : KeysOf(zError.issues[i]) # <<>>
  /\ \A i, j \in 1..Len(zError.issues) :
       ~StrictPrefix(KeysOf(zError.issues[i]), KeysOf(zError.issues[j]))

\* C18: in nested mode the value at the end of each issue's path is what
\* flat mode stores at a key: with messageFormat "array" the list of the
\* messages written to that path in issue order, with messageFormat
\* "string" the first message written to that path.
C18_NestedLeafAsFlat ==
  NestedNoConflict =>
    \A i \in 1..Len(zError.issues) :
      LET ks == KeysOf(zError.issues[i]) IN
      ValueAt(zOut.validation, ks) =
        IF zOptions.messageFormat = "array"
        THEN Arr(MessagesAtPath(ks)) ELSE MessagesAtPath(ks)[1]

\* C18 for messageFormat "array" alone.
C18_NestedArrayLeaf ==
  (NestedNoConflict /\ zOptions.messageFormat = "array") =>
    \A i \in 1..Len(zError.issues) :
      LET ks == KeysOf(zError.issues[i]) IN
      ValueAt(zOut.validation, ks) = Arr(MessagesAtPath(ks))

\* what the code does with messageFormat "string": the value at the end of
\* a path is the last message written to that path.
C18_NestedStringKeepsLast ==
  (NestedNoConflict /\ zOptions.messageFormat = "string") =>
    \A i \in 1..Len(zError.issues) :
      LET ks == KeysOf(zError.issues[i]) IN
      ValueAt(zOut.validation, ks) =
        MessagesAtPath(ks)[Len(MessagesAtPath(ks))]

\* nested mode, two issues, the path of one going through the end of the
\* path of the other
TwoInConflict ==
  /\ zpc = "done"
  /\ zOptions.structure = "nested"
  /\ Len(zError.issues) = 2
  /\ KeysOf(zError.issues[1]) # <<>>
  /\ KeysOf(zError.issues[2]) # <<>>
  /\ \/ StrictPrefix(KeysOf(zError.issues[1]), KeysOf(zError.issues[2]))
     \/ StrictPrefix(KeysOf(zError.issues[2]), KeysOf(zError.issues[1]))

\* the leaf written for an issue
LeafOf(issue) ==
  IF zOptions.messageFormat = "array"
  THEN Arr(<<Str(MessageOf(issue))>>) ELSE Str(MessageOf(issue))

\* C19: in nested mode, when the path of the later of two issues goes
\* through the key at which the earlier one wrote its leaf, the leaf is
\* replaced by an object that holds the later message, and when the later
\* path ends at a key that holds an object, the object is replaced by the
\* leaf: either way what is left is the tree of the later issue alone.
C19_LastWriteWins ==
  TwoInConflict =>
    zOut.validation =
      Tree(FilterPath(zError.issues[2].path), LeafOf(zError.issues[2]))

\* C19 but for a message list on the way of a later path: it holds with
\* messageFormat "string", and with either format when the later path
\* ends at a key that holds an object.
C19_LastWriteWinsButThroughList ==
  (TwoInConflict
     /\ \/ zOptions.messageFormat = "string"
        \/ StrictPrefix(KeysOf(zError.issues[2]), KeysOf(zError.issues[1]))) =>
    zOut.validation =
      Tree(FilterPath(zError.issues[2].path), LeafOf(zError.issues[2]))

\* what the code does with messageFormat "array" when the later path goes
\* through the earlier leaf: the message list stays where it is.
C19_ListOnTheWayIsKept ==
  (TwoInConflict /\ zOptions.messageFormat = "array"
     /\ StrictPrefix(KeysOf(zError.issues[1]), KeysOf(zError.issues[2]))) =>
    IsArray(ValueAt(zOut.validation, KeysOf(zError.issues[1])))

----------------------------------------------------------------------------
(* Issues whose path is empty once the symbols are dropped (checked under  *)
(* SpecZod)                                                                *)

\* the positions of the issues without a key
Keyless == {i \in 1..Len(zError.issues) : KeysOf(zError.issues[i]) = <<>>}

\* the issues that have a key, in issue order
KeyedIssues == SelectSeq(zError.issues, LAMBDA i : KeysOf(i) # <<>>)

\* C21: an issue whose path is empty, or made of dropped segments only,
\* is stored under the key "" in flat mode (its message in the list there
\* under messageFormat "array", one such issue's message there under
\* "string"); in nested mode it writes nothing: the validation map is the
\* one the other issues give, the empty map when there are no others,
\* while status is 422 and code holds "102" and the codes mapIssue gave,
\* those for the issues without a key included.
C21_KeylessIssues ==
  (zpc = "done" /\ Keyless # {}) =>
    /\ zOptions.structure = "flat" =>
         /\ "" \in DOMAIN zOut.validation.o
         /\ IF zOptions.messageFormat = "array"
            THEN \A i \in Keyless :
                   \E n \in 1..Len(zOut.validation.o[""].a) :
                     zOut.validation.o[""].a[n] = Str(MessageOf(zError.issues[i]))
            ELSE \E i \in Keyless :
                   zOut.validation.o[""] = Str(MessageOf(zError.issues[i]))
    /\ zOptions.structure = "nested" =>
         /\ zOut.validation =
              ZodSerialize(zPlugin, ZodError(zError.ref, KeyedIssues)).validation
         /\ "" \notin DOMAIN zOut.validation.o
         /\ KeyedIssues = <<>> => zOut.validation = EmptyObj
         /\ zOut.status = Num(422)
         /\ zOut.code =
              Arr(FirstOccurrences(
                    <<Str("102")>> \o SelectSeq(ReturnedCodes, LAMBDA c : c.s # "")))

\* C21 witness: nested mode, an issue whose path is one symbol, coded by
\* mapIssue, before an issue at key a.
C21_Witness ==
  /\ zpc = "done"
  /\ zOptions.structure = "nested"
  /\ zOptions.messageFormat = "string"
  /\ zError.issues = <<Issue(<<Sym("private")>>, "X"), Issue(<<Str("a")>>, "")>>
  /\ zOut.validation = Obj([a |-> Str("Required")])
  /\ zOut.code = Arr(<<Str("102"), Str("E_X"), Str("E_REQUIRED")>>)

====
